---- MODULE Spec2Model ----
(***************************************************************************)
(* Model of gotldextract: cleanDomain (the normalizer), Extract (the       *)
(* suffix resolver built on publicsuffix.PublicSuffix), Result.String,     *)
(* Result.FQDN and Update.                                                 *)
(*                                                                         *)
(* A Go string is a sequence of characters; a character is a one-element   *)
(* token such as "a" or ".".  "U0131" stands for the rune U+0131 (Latin    *)
(* small letter dotless i), whose upper case is "I" and which ToLower      *)
(* leaves alone.  Indices are Go's: 0-based, -1 for "not found".           *)
(***************************************************************************)
EXTENDS Integers, Sequences, FiniteSets, TLC

VARIABLES input, rules, pc, result, err, updErr, calls, frames

vars == <<input, rules, pc, result, err, updErr, calls, frames>>

(***************************************************************************)
(* Bounds: the length of a raw input string, the number of labels of a     *)
(* host, the number of labels put in front of a host, the number of        *)
(* goroutines that call Extract at the same time                           *)
(***************************************************************************)
MaxLen == 4

MaxLabels == 4

MaxExtra == 2

NumGoroutines == 2

(***************************************************************************)
(* Values and characters                                                   *)
(***************************************************************************)
Nil == "nil"

Dot == "."

Alphabet == {"a", "b", "A", "U0131", ".", "/", ":"}

(***************************************************************************)
(* package strings                                                         *)
(***************************************************************************)
\* s[from:] with a 0-based from
SliceFrom(s, from) == SubSeq(s, from + 1, Len(s))

\* s[:to] with a 0-based, exclusive to
SliceTo(s, to) == SubSeq(s, 1, to)

HasSuffix(s, p) == Len(s) >= Len(p) /\ SubSeq(s, Len(s) - Len(p) + 1, Len(s)) = p

\* strings.Index: 0-based index of the first occurrence of sep, -1 if none
Index(s, sep) ==
    LET hits == {i \in 0..(Len(s) - Len(sep)) : SubSeq(s, i + 1, i + Len(sep)) = sep}
    IN  IF hits = {} THEN -1 ELSE CHOOSE i \in hits : \A j \in hits : i <= j

\* strings.LastIndexByte: 0-based index of the last occurrence of c, -1 if none
LastIndexByte(s, c) ==
    LET hits == {i \in 0..(Len(s) - 1) : s[i + 1] = c}
    IN  IF hits = {} THEN -1 ELSE CHOOSE i \in hits : \A j \in hits : i >= j

Contains(s, sep) == Index(s, sep) # -1

\* strings.SplitN(s, sep, 2): at most two parts, cut at the first sep
SplitN2(s, sep) ==
    LET i == Index(s, sep)
    IN  IF i = -1 THEN <<s>> ELSE <<SliceTo(s, i), SliceFrom(s, i + Len(sep))>>

\* strings.TrimSuffix: removes ONE trailing occurrence of suf, if present
TrimSuffix(s, suf) == IF HasSuffix(s, suf) THEN SliceTo(s, Len(s) - Len(suf)) ELSE s

LowerRune(c) ==
    CASE c = "A" -> "a"
      [] c = "B" -> "b"
      [] c = "I" -> "i"
      [] OTHER -> c

UpperRune(c) ==
    CASE c = "a" -> "A"
      [] c = "b" -> "B"
      [] c = "i" -> "I"
      [] c = "U0131" -> "I"
      [] OTHER -> c

ToLower(s) == [i \in 1..Len(s) |-> LowerRune(s[i])]

ToUpper(s) == [i \in 1..Len(s) |-> UpperRune(s[i])]

RECURSIVE Split(_, _)
\* strings.Split(s, sep) for a one-character sep: never empty, Split("") = [""]
Split(s, sep) ==
    LET i == Index(s, sep)
    IN  IF i = -1 THEN <<s>>
        ELSE <<SliceTo(s, i)>> \o Split(SliceFrom(s, i + Len(sep)), sep)

RECURSIVE Join(_, _)
\* strings.Join
Join(parts, sep) ==
    IF Len(parts) = 0 THEN <<>>
    ELSE IF Len(parts) = 1 THEN parts[1]
    ELSE parts[1] \o sep \o Join(Tail(parts), sep)

(***************************************************************************)
(* cleanDomain                                                             *)
(***************************************************************************)
SchemeSep == <<":", "/", "/">>

StripProtocol(domain) ==
    IF Contains(domain, SchemeSep)
    THEN LET parts == SplitN2(domain, SchemeSep)
         IN  IF Len(parts) = 2 THEN parts[2] ELSE domain
    ELSE domain

StripPath(domain) ==
    LET idx == Index(domain, <<"/">>)
    IN  IF idx # -1 THEN SliceTo(domain, idx) ELSE domain

StripPort(domain) ==
    LET idx == Index(domain, <<":">>)
    IN  IF idx # -1 THEN SliceTo(domain, idx) ELSE domain

\* cleanDomain with a slip: the result is not lower-cased
cleanDomainKeepCase(domain) ==
    TrimSuffix(StripPort(StripPath(StripProtocol(domain))), <<Dot>>)

cleanDomain(domain) ==
    ToLower(TrimSuffix(StripPort(StripPath(StripProtocol(domain))), <<Dot>>))

(***************************************************************************)
(* golang.org/x/net/publicsuffix, as called by Extract.  The embedded list *)
(* is a set of rules; a rule is [kind, labels, icann] where labels is the  *)
(* rule's label sequence in host order without the leading "*." or "!".    *)
(* The package compiles the list into a trie keyed by labels from the      *)
(* right; a node is named here by the trailing label sequence it stands    *)
(* for, the root by <<>>.                                                  *)
(***************************************************************************)
IsTrailing(p, ls) ==
    Len(p) <= Len(ls) /\ SubSeq(ls, Len(ls) - Len(p) + 1, Len(ls)) = p

\* lo # hi: the node has children
HasChildren(rs, node) ==
    \E r \in rs : Len(r.labels) > Len(node) /\ IsTrailing(node, r.labels)

\* find(label, lo, hi) # notFound: the child of node labelled label exists
Found(rs, label, node) ==
    \E r \in rs : IsTrailing(<<label>> \o node, r.labels)

NodeType(rs, node) ==
    IF \E r \in rs : r.kind = "plain" /\ r.labels = node THEN "nodeTypeNormal"
    ELSE IF \E r \in rs : r.kind = "exception" /\ r.labels = node THEN "nodeTypeException"
    ELSE "nodeTypeParentOnly"

NodeWildcard(rs, node) ==
    \E r \in rs : r.kind = "wildcard" /\ r.labels = node

NodeICANN(rs, node) ==
    \A r \in rs : r.labels = node => r.icann

RECURSIVE PSLoop(_, _, _, _, _, _, _)
\* The loop of PublicSuffix: s is the part of the domain not yet consumed,
\* suffix the 0-based start of the suffix found so far, node the trie node
\* reached.  Returns [suffix, icann] as they stand when the loop is left.
PSLoop(rs, s, suffix, icann, icannNode, wildcard, node) ==
    LET dot    == LastIndexByte(s, Dot)
        icann1 == IF wildcard THEN icannNode ELSE icann
        suf1   == IF wildcard THEN 1 + dot ELSE suffix
        label  == SliceFrom(s, 1 + dot)
        child  == <<label>> \o node
    IN  IF ~HasChildren(rs, node) THEN [suffix |-> suf1, icann |-> icann1]
        ELSE IF ~Found(rs, label, node) THEN [suffix |-> suf1, icann |-> icann1]
        ELSE LET type   == NodeType(rs, child)
                 inode2 == NodeICANN(rs, child)
                 wild2  == NodeWildcard(rs, child)
                 suf2   == IF type = "nodeTypeNormal" THEN 1 + dot ELSE suf1
                 icann2 == IF ~wild2 THEN inode2 ELSE icann1
             IN  IF type = "nodeTypeException"
                 THEN [suffix |-> 1 + Len(s), icann |-> icann1]
                 ELSE IF dot = -1 THEN [suffix |-> suf2, icann |-> icann2]
                 ELSE PSLoop(rs, SliceTo(s, dot), suf2, icann2, inode2, wild2, child)

\* publicsuffix.PublicSuffix(domain): [publicSuffix, icann].  A slice bound
\* past the end of the domain is a run-time panic (panics = TRUE).
PublicSuffix(rs, domain) ==
    LET w == PSLoop(rs, domain, Len(domain), FALSE, FALSE, FALSE, <<>>)
    IN  IF w.suffix = Len(domain)
        THEN \* If no rules match, the prevailing rule is "*".
             [publicSuffix |-> SliceFrom(domain, 1 + LastIndexByte(domain, Dot)),
              icann |-> w.icann, panics |-> FALSE]
        ELSE IF w.suffix > Len(domain)
        THEN [publicSuffix |-> <<>>, icann |-> w.icann, panics |-> TRUE]
        ELSE [publicSuffix |-> SliceFrom(domain, w.suffix),
              icann |-> w.icann, panics |-> FALSE]

(***************************************************************************)
(* Extract, Result.String, Result.FQDN, Update                             *)
(***************************************************************************)
NewResult(sub, dom, tld) ==
    [isNil |-> FALSE, Subdomain |-> sub, Domain |-> dom, TLD |-> tld]

\* A nil *Result: what the result variable holds while nothing was returned
NoResult == [isNil |-> TRUE, Subdomain |-> <<>>, Domain |-> <<>>, TLD |-> <<>>]

\* return &Result{...}, nil
Return(sub, dom, tld) ==
    [res |-> NewResult(sub, dom, tld), err |-> Nil, panics |-> FALSE]

\* A run-time panic: the call returns nothing
Panics == [res |-> NoResult, err |-> "none", panics |-> TRUE]

\* Extract, from "if domain == suffix" on, with a slip: the early return for
\* a host that is a suffix as a whole is missing
PartitionNoEarlyReturn(domain, suffix) ==
    LET domainWithoutSuffix == TrimSuffix(domain, <<Dot>> \o suffix)
        parts == Split(domainWithoutSuffix, <<Dot>>)
        domainName == parts[Len(parts)]
        subdomain  == IF Len(parts) > 1
                      THEN Join(SliceTo(parts, Len(parts) - 1), <<Dot>>)
                      ELSE <<>>
    IN  Return(subdomain, domainName, suffix)

\* ... with a slip: the first remaining label, not the last, is the domain
PartitionFirstLabel(domain, suffix) ==
    IF domain = suffix
    THEN Return(<<>>, <<>>, suffix)
    ELSE LET domainWithoutSuffix == TrimSuffix(domain, <<Dot>> \o suffix)
             parts == Split(domainWithoutSuffix, <<Dot>>)
             domainName == parts[1]
             subdomain  == IF Len(parts) > 1
                           THEN Join(SliceFrom(parts, 1), <<Dot>>)
                           ELSE <<>>
         IN  Return(subdomain, domainName, suffix)

\* ... with a slip: an empty host is rejected with an error
PartitionRejectEmpty(domain, suffix) ==
    IF domain = <<>>
    THEN [res |-> NoResult, err |-> "empty domain", panics |-> FALSE]
    ELSE IF domain = suffix
    THEN Return(<<>>, <<>>, suffix)
    ELSE LET domainWithoutSuffix == TrimSuffix(domain, <<Dot>> \o suffix)
             parts == Split(domainWithoutSuffix, <<Dot>>)
             domainName == parts[Len(parts)]
             subdomain  == IF Len(parts) > 1
                           THEN Join(SliceTo(parts, Len(parts) - 1), <<Dot>>)
                           ELSE <<>>
         IN  Return(subdomain, domainName, suffix)

\* Extract, from "if domain == suffix" on: the split of the cleaned domain
\* around its public suffix
Partition(domain, suffix) ==
    IF domain = suffix
    THEN Return(<<>>, <<>>, suffix)
    ELSE LET domainWithoutSuffix == TrimSuffix(domain, <<Dot>> \o suffix)
             parts == Split(domainWithoutSuffix, <<Dot>>)
         IN  IF Len(parts) = 0
             THEN Return(<<>>, <<>>, suffix)
             ELSE LET domainName == parts[Len(parts)]
                      subdomain  == IF Len(parts) > 1
                                    THEN Join(SliceTo(parts, Len(parts) - 1), <<Dot>>)
                                    ELSE <<>>
                  IN  Return(subdomain, domainName, suffix)

\* Extract with a slip: the suffix is taken label by label, the last label only
ExtractLastLabel(rs, raw) ==
    LET domain == cleanDomain(raw)
    IN  Partition(domain, SliceFrom(domain, 1 + LastIndexByte(domain, Dot)))

\* Extract with a slip: a suffix that is not an ICANN suffix is dropped
\* instead of looked up again
ExtractICANNOnly(rs, raw) ==
    LET domain == cleanDomain(raw)
        first  == PublicSuffix(rs, domain)
        suffix == IF ~first.icann THEN <<>> ELSE first.publicSuffix
    IN  IF first.panics
        THEN Panics
        ELSE Partition(domain, suffix)

\* Extract(domain): what the call yields, the pair (*Result, error) or a panic
Extract(rs, raw) ==
    LET domain == cleanDomain(raw)
        first  == PublicSuffix(rs, domain)
        again  == IF ~first.icann THEN PublicSuffix(rs, domain) ELSE first
        suffix == again.publicSuffix
    IN  IF first.panics \/ again.panics
        THEN Panics
        ELSE Partition(domain, suffix)

\* ExtractFromURL(url)
ExtractFromURL(rs, url) == Extract(rs, url)

\* (r *Result) String()
String(r) == IF r.Domain = <<>> THEN r.TLD ELSE r.Domain \o <<Dot>> \o r.TLD

\* FQDN with a slip: empty parts are not omitted
FQDNAllParts(r) == Join(<<r.Subdomain, r.Domain, r.TLD>>, <<Dot>>)

\* (r *Result) FQDN()
FQDN(r) ==
    LET p1 == IF r.Subdomain # <<>> THEN <<r.Subdomain>> ELSE <<>>
        p2 == IF r.Domain # <<>> THEN p1 \o <<r.Domain>> ELSE p1
        p3 == IF r.TLD # <<>> THEN p2 \o <<r.TLD>> ELSE p2
    IN  Join(p3, <<Dot>>)

\* Update(): the error it returns
UpdateError == "update not supported: the public suffix list is embedded in the golang.org/x/net/publicsuffix package"

\* Update with a slip: the list is dropped before the refresh fails
UpdateRulesDropped(rs) == {}

\* Update(): the rule set it leaves behind
UpdateRules(rs) == rs

(***************************************************************************)
(* Rule sets                                                               *)
(***************************************************************************)
Plain(ls, icann) == [kind |-> "plain", labels |-> ls, icann |-> icann]

Wildcard(ls, icann) == [kind |-> "wildcard", labels |-> ls, icann |-> icann]

Exception(ls, icann) == [kind |-> "exception", labels |-> ls, icann |-> icann]

La == <<"a">>

Lb == <<"b">>

\* A list shaped like the embedded one: a TLD ("com"), a two-label suffix
\* under it ("co.uk"), a wildcard ("*.ck") and its exception ("!www.ck").
EmbeddedList ==
    { Plain(<<La>>, TRUE), Plain(<<Lb, La>>, TRUE),
      Wildcard(<<Lb>>, TRUE), Exception(<<La, Lb>>, TRUE) }

RuleUniverse ==
    { Plain(<<La>>, TRUE), Plain(<<Lb>>, TRUE), Plain(<<Lb, La>>, TRUE),
      Plain(<<La, Lb, La>>, FALSE),
      Wildcard(<<Lb>>, TRUE), Wildcard(<<Lb, La>>, TRUE),
      Exception(<<La, Lb>>, TRUE), Exception(<<La, Lb, La>>, TRUE) }

\* The public-suffix-list grammar: an exception overrides a wildcard of the
\* list, and no name is both a suffix and an exception.
Conforming(rs) ==
    \A r \in rs : r.kind = "exception" =>
        /\ \E w \in rs : w.kind = "wildcard" /\ w.labels = Tail(r.labels)
        /\ ~\E q \in rs : q.kind = "plain" /\ q.labels = r.labels

RuleSets == {rs \in SUBSET RuleUniverse : Conforming(rs)}

(***************************************************************************)
(* Inputs                                                                  *)
(***************************************************************************)
RECURSIVE SeqsUpTo(_, _)
SeqsUpTo(S, n) ==
    IF n = 0 THEN {<<>>}
    ELSE LET shorter == SeqsUpTo(S, n - 1)
         IN  shorter \cup {<<x>> \o t : x \in S, t \in {u \in shorter : Len(u) = n - 1}}

Strings == SeqsUpTo(Alphabet, MaxLen)

Labels == {La, Lb}

\* Host strings: dot-joined sequences of non-empty labels
Hosts == {Join(ls, <<Dot>>) : ls \in SeqsUpTo(Labels, MaxLabels)}

\* What callers put around a host: a scheme, a port, a path, trailing dots
Schemes == {<<>>, <<"a", ":", "/", "/">>, <<"A", ":", "/", "/">>}

Trailers ==
    { <<>>, <<".">>, <<".", ".">>, <<":", "a">>, <<"/", "a">>,
      <<":", "a", "/", "a">>, <<".", "/", "a", ":">> }

URLs == {sch \o h \o tr : sch \in Schemes, h \in Hosts \cup {ToUpper(x) : x \in Hosts}, tr \in Trailers}

\* Raw inputs: every short string over the alphabet, and every decorated host
Inputs == Strings \cup URLs

(***************************************************************************)
(* The program: one call of Extract on the input, and Update at any time.  *)
(***************************************************************************)
TypeOK ==
    /\ pc \in {"start", "done", "panic"}
    /\ err \in {"none", Nil}
    /\ updErr \in {"none", Nil, UpdateError}

InitCommon ==
    /\ pc = "start"
    /\ result = NoResult
    /\ err = "none"
    /\ updErr = "none"

\* No goroutine besides the caller
NoGoroutines ==
    /\ calls = <<>>
    /\ frames = <<>>

\* Raw input strings against the embedded list
Init ==
    /\ input \in Inputs
    /\ rules = EmbeddedList
    /\ InitCommon
    /\ NoGoroutines

\* Normalized hosts against every conforming rule set
InitHosts ==
    /\ input \in Hosts
    /\ rules \in RuleSets
    /\ InitCommon
    /\ NoGoroutines

\* The caller receives what the call yields; a panic ends the program
Receive(r) ==
    /\ pc # "panic"
    /\ pc' = IF r.panics THEN "panic" ELSE "done"
    /\ result' = r.res
    /\ err' = r.err
    /\ UNCHANGED <<input, rules, updErr, calls, frames>>

DoExtract == Receive(Extract(rules, input))

DoExtractFromURL == Receive(ExtractFromURL(rules, input))

DoUpdate ==
    /\ pc # "panic"
    /\ updErr' = UpdateError
    /\ rules' = UpdateRules(rules)
    /\ UNCHANGED <<input, pc, result, err, calls, frames>>

Next == DoExtract \/ DoExtractFromURL \/ DoUpdate

Spec == Init /\ [][Next]_vars

SpecHosts == InitHosts /\ [][Next]_vars

(***************************************************************************)
(* Concurrent callers: each goroutine calls Extract on its own input, one  *)
(* statement group at a time, against the one embedded list.  The locals   *)
(* of a call (domain, suffix) live in the frame of that call.              *)
(***************************************************************************)
Goroutines == 1..NumGoroutines

\* Inputs of the concurrent callers: the empty string, a bare suffix, a
\* two-label suffix, a domain under it, a subdomain under an exception, a
\* URL whose host a wildcard covers
ConcInputs ==
    { <<>>, <<"a">>, <<"b", ".", "a">>, <<"a", ".", "b", ".", "a">>,
      <<"a", ".", "a", ".", "b">>, <<"A", ":", "/", "/", "b", ".", "b", "/">> }

\* The frame with a slip: one package-level buffer holds the locals of
\* every call
FrameShared(g) == 1

\* The frame that holds the locals of the call goroutine g makes
Frame(g) == g

InitConc ==
    /\ input = <<>>
    /\ rules = EmbeddedList
    /\ InitCommon
    /\ calls \in [Goroutines -> {[pc |-> "call", input |-> x, res |-> NoResult, err |-> "none"] :
                                    x \in ConcInputs}]
    /\ frames = [f \in Goroutines |-> [domain |-> <<>>, suffix |-> <<>>]]

\* domain = cleanDomain(domain)
CallClean(g) ==
    /\ calls[g].pc = "call"
    /\ frames' = [frames EXCEPT ![Frame(g)].domain = cleanDomain(calls[g].input)]
    /\ calls' = [calls EXCEPT ![g].pc = "cleaned"]
    /\ UNCHANGED <<input, rules, pc, result, err, updErr>>

\* suffix, icann := publicsuffix.PublicSuffix(domain), and again if !icann
CallSuffix(g) ==
    /\ calls[g].pc = "cleaned"
    /\ LET domain == frames[Frame(g)].domain
           first  == PublicSuffix(rules, domain)
           again  == IF ~first.icann THEN PublicSuffix(rules, domain) ELSE first
       IN  IF first.panics \/ again.panics
           THEN /\ calls' = [calls EXCEPT ![g].pc = "panic"]
                /\ UNCHANGED frames
           ELSE /\ frames' = [frames EXCEPT ![Frame(g)].suffix = again.publicSuffix]
                /\ calls' = [calls EXCEPT ![g].pc = "suffixed"]
    /\ UNCHANGED <<input, rules, pc, result, err, updErr>>

\* The rest of Extract, up to its return
CallReturn(g) ==
    /\ calls[g].pc = "suffixed"
    /\ LET r == Partition(frames[Frame(g)].domain, frames[Frame(g)].suffix)
       IN  calls' = [calls EXCEPT ![g].pc = "done", ![g].res = r.res, ![g].err = r.err]
    /\ UNCHANGED <<input, rules, pc, result, err, updErr, frames>>

NextConc ==
    \/ \E g \in Goroutines : CallClean(g)
    \/ \E g \in Goroutines : CallSuffix(g)
    \/ \E g \in Goroutines : CallReturn(g)
    \/ DoUpdate

SpecConc == InitConc /\ [][NextConc]_vars

(***************************************************************************)
(* The suffix-selection rule of the public suffix list, stated on label    *)
(* sequences and independently of the trie walk: the properties below      *)
(* compare what Extract returned with it.                                  *)
(***************************************************************************)
\* The labels of a host string: none for the empty host
HostLabels(h) == IF h = <<>> THEN <<>> ELSE Split(h, <<Dot>>)

\* The last n labels of ls, dot-joined
LastLabels(ls, n) == Join(SubSeq(ls, Len(ls) - n + 1, Len(ls)), <<Dot>>)

\* A rule matches a host whose trailing labels are the rule's; a wildcard
\* needs one more label in place of its "*"
Matches(r, ls) ==
    /\ IsTrailing(r.labels, ls)
    /\ r.kind = "wildcard" => Len(ls) > Len(r.labels)

\* The number of labels a matching plain or wildcard rule yields
RuleLabels(r) == IF r.kind = "wildcard" THEN Len(r.labels) + 1 ELSE Len(r.labels)

\* The number of labels of the suffix the selection rule prescribes for ls
SelectedLabels(rs, ls) ==
    LET exc == {r \in rs : r.kind = "exception" /\ Matches(r, ls)}
        pos == {r \in rs : r.kind # "exception" /\ Matches(r, ls)}
    IN  IF exc # {}
        THEN LET x == CHOOSE r \in exc : TRUE IN Len(x.labels) - 1
        ELSE IF pos # {}
        THEN LET m == CHOOSE r \in pos : \A q \in pos : RuleLabels(q) <= RuleLabels(r)
             IN  RuleLabels(m)
        ELSE IF Len(ls) >= 1 THEN 1 ELSE 0

\* The host whose labels the call partitions
Host == cleanDomain(input)

\* C1: the TLD Extract returns is the trailing label sequence the selection
\* rule prescribes: the longest plain or wildcard match, whole; one label
\* less than the overridden wildcard when an exception matches.
C1_SuffixSelection ==
    pc = "done" =>
        LET ls == HostLabels(Host)
        IN  result.TLD = LastLabels(ls, SelectedLabels(rules, ls))

\* An exception rule decided the suffix, and the suffix has several labels
C1_Witness ==
    /\ pc = "done"
    /\ \E r \in rules : r.kind = "exception" /\ Matches(r, HostLabels(Host))
    /\ Len(HostLabels(result.TLD)) >= 2
    /\ result.Domain # <<>>

\* The labels in front of the suffix are split as the claim says: Domain is
\* the label next to the suffix, Subdomain the labels before it
SplitsBeforeSuffix(res, ls) ==
    LET k == Len(HostLabels(res.TLD))
        n == Len(ls)
    IN  /\ k < n
        /\ res.TLD = LastLabels(ls, k)
        /\ res.Domain = ls[n - k]
        /\ res.Subdomain = Join(SubSeq(ls, 1, n - k - 1), <<Dot>>)

\* Sequences of 1..MaxExtra extra leading labels
ExtraLabels == SeqsUpTo(Labels, MaxExtra) \ {<<>>}

\* C2 as stated: Domain is the label before the suffix, Subdomain the labels
\* before that, and extra leading labels change Subdomain only.
C2_Original ==
    (pc = "done" /\ result.TLD # Host) =>
        LET ls == HostLabels(Host)
        IN  /\ SplitsBeforeSuffix(result, ls)
            /\ \A e \in ExtraLabels :
                 LET longer == Extract(rules, Join(e \o ls, <<Dot>>)).res
                 IN  /\ longer.TLD = result.TLD
                     /\ longer.Domain = result.Domain
                     /\ longer.Subdomain = Join(e \o HostLabels(result.Subdomain), <<Dot>>)

\* C2 amended: extra leading labels change Subdomain only provided the
\* selection rule prescribes the same suffix for the longer host.
C2_Partition ==
    (pc = "done" /\ result.TLD # Host) =>
        LET ls == HostLabels(Host)
        IN  /\ SplitsBeforeSuffix(result, ls)
            /\ \A e \in ExtraLabels :
                 SelectedLabels(rules, e \o ls) = SelectedLabels(rules, ls) =>
                 LET longer == Extract(rules, Join(e \o ls, <<Dot>>)).res
                 IN  /\ longer.TLD = result.TLD
                     /\ longer.Domain = result.Domain
                     /\ longer.Subdomain = Join(e \o HostLabels(result.Subdomain), <<Dot>>)

\* A host with two labels of subdomain in front of a two-label suffix
C2_Witness ==
    /\ pc = "done"
    /\ result.TLD # Host
    /\ Len(HostLabels(result.Subdomain)) >= 1
    /\ Len(HostLabels(result.TLD)) >= 2
    /\ \E e \in ExtraLabels :
         SelectedLabels(rules, e \o HostLabels(Host)) = SelectedLabels(rules, HostLabels(Host))

\* The host is label.suffix for a plain rule suffix of the rule set
LabelDotPlainSuffix(rs, ls) ==
    /\ Len(ls) >= 2
    /\ \E r \in rs : r.kind = "plain" /\ r.labels = Tail(ls)

\* C3 as stated: label.suffix with a known plain suffix yields ("", label, suffix).
C3_Original ==
    (pc = "done" /\ LabelDotPlainSuffix(rules, HostLabels(Host))) =>
        LET ls == HostLabels(Host)
        IN  result = NewResult(<<>>, ls[1], Join(Tail(ls), <<Dot>>))

\* C3 amended: ... provided the selection rule prescribes suffix for the
\* host, that is, no rule matches label.suffix as a whole.
C3_LabelDotSuffix ==
    (/\ pc = "done"
     /\ LabelDotPlainSuffix(rules, HostLabels(Host))
     /\ SelectedLabels(rules, HostLabels(Host)) = Len(HostLabels(Host)) - 1) =>
        LET ls == HostLabels(Host)
        IN  result = NewResult(<<>>, ls[1], Join(Tail(ls), <<Dot>>))

\* label.suffix in front of a two-label plain suffix
C3_Witness ==
    /\ pc = "done"
    /\ LabelDotPlainSuffix(rules, HostLabels(Host))
    /\ SelectedLabels(rules, HostLabels(Host)) = Len(HostLabels(Host)) - 1
    /\ Len(HostLabels(Host)) = 3

\* C4: when the prescribed suffix is the whole host, Extract returns
\* Subdomain = "", Domain = "" and TLD = the host.
C4_WholeHostIsSuffix ==
    (pc = "done" /\ SelectedLabels(rules, HostLabels(Host)) = Len(HostLabels(Host))) =>
        result = NewResult(<<>>, <<>>, Host)

\* A single-label host that is a plain rule of the list
C4_Witness ==
    /\ pc = "done"
    /\ Len(HostLabels(Host)) = 1
    /\ \E r \in rules : r.kind = "plain" /\ r.labels = HostLabels(Host)
    /\ result.TLD = Host

(***************************************************************************)
(* Properties of the normalizer, of FQDN and of Update                     *)
(***************************************************************************)
\* A host is well formed when it is empty or none of its labels is empty
WellFormed(h) == \A i \in 1..Len(HostLabels(h)) : HostLabels(h)[i] # <<>>

\* C5 as stated: for every input, FQDN() of the result is the normalized host.
C5_Original ==
    pc = "done" => FQDN(result) = Host

\* C5 amended: for every input whose normalized host has no empty label,
\* FQDN() of the result is the normalized host.
C5_FQDNRoundTrip ==
    (pc = "done" /\ WellFormed(Host)) => FQDN(result) = Host

\* A decorated input whose host has a subdomain, a domain and a suffix
C5_Witness ==
    /\ pc = "done"
    /\ WellFormed(Host)
    /\ input # Host
    /\ result.Subdomain # <<>>
    /\ result.Domain # <<>>
    /\ result.TLD # <<>>
    /\ FQDN(result) = Host

\* C6: normalization is idempotent, cleanDomain(cleanDomain(x)) = cleanDomain(x).
C6_Idempotent ==
    pc = "done" => cleanDomain(Host) = Host

\* C7 as stated: Extract(s) and Extract(uppercase(s)) return the same parts.
C7_Original ==
    pc = "done" => Extract(rules, ToUpper(input)).res = result

\* C7 amended: ... for every input s whose upper-casing is undone by
\* lower-casing, lower(upper(s)) = lower(s), as it is for every ASCII string.
C7_CaseInsensitive ==
    (pc = "done" /\ ToLower(ToUpper(input)) = ToLower(input)) =>
        Extract(rules, ToUpper(input)).res = result

\* An input with a lower-case letter in its domain, so that upper-casing
\* changes the input
C7_Witness ==
    /\ pc = "done"
    /\ ToLower(ToUpper(input)) = ToLower(input)
    /\ ToUpper(input) # input
    /\ result.Domain # <<>>
    /\ result.TLD # <<>>

IsUpper(c) == LowerRune(c) # c

\* C8: the normalized host has no "://", no '/', no ':', no upper-case
\* letter and no trailing '.'.
C8_NoArtifacts ==
    pc = "done" =>
        /\ ~Contains(Host, SchemeSep)
        /\ ~Contains(Host, <<"/">>)
        /\ ~Contains(Host, <<":">>)
        /\ \A i \in 1..Len(Host) : ~IsUpper(Host[i])
        /\ ~HasSuffix(Host, <<Dot>>)

\* C9: Extract never fails: no call panics, every call returns a non-nil
\* Result and a nil error, and an input that normalizes to the empty host
\* yields three empty fields.
C9_Total ==
    /\ pc # "panic"
    /\ ~Extract(rules, input).panics
    /\ pc = "done" =>
         /\ ~result.isNil
         /\ err = Nil
         /\ Host = <<>> => result = NewResult(<<>>, <<>>, <<>>)

\* A non-empty input that normalizes to the empty host
C9_Witness ==
    /\ pc = "done"
    /\ input # <<>>
    /\ Host = <<>>
    /\ result = NewResult(<<>>, <<>>, <<>>)

NoRuleMatches(rs, ls) == ~\E r \in rs : Matches(r, ls)

\* C12: for a host of at least one label none of whose trailing labels
\* match a rule, Extract takes the last label as the TLD and splits the
\* labels before it into Domain and Subdomain as usual.
C12_Fallback ==
    (pc = "done" /\ Len(HostLabels(Host)) >= 1 /\ NoRuleMatches(rules, HostLabels(Host))) =>
        LET ls == HostLabels(Host)
            n  == Len(ls)
        IN  /\ ~result.isNil
            /\ err = Nil
            /\ result.TLD = ls[n]
            /\ result.Domain = IF n >= 2 THEN ls[n - 1] ELSE <<>>
            /\ result.Subdomain = Join(SubSeq(ls, 1, n - 2), <<Dot>>)

\* A host of three labels or more against a non-empty list none of whose
\* rules matches it
C12_Witness ==
    /\ pc = "done"
    /\ rules # {}
    /\ Len(HostLabels(Host)) >= 3
    /\ NoRuleMatches(rules, HostLabels(Host))
    /\ result.Subdomain # <<>>
    /\ result.TLD = HostLabels(Host)[Len(HostLabels(Host))]

(***************************************************************************)
(* Concurrent calls                                                        *)
(***************************************************************************)
\* C11: the rule set is never changed, and in every interleaving of the
\* goroutines' steps each call returns what Extract returns for its input
\* when run alone.
C11_ConcurrentCalls ==
    [][/\ rules' = rules
       /\ \A g \in DOMAIN calls :
            /\ calls'[g].pc # "panic"
            /\ calls'[g].pc = "done" =>
                 /\ calls'[g].res = Extract(rules, calls'[g].input).res
                 /\ calls'[g].err = Nil]_vars

\* One call has returned a domain while another call, on another input, is
\* between its statements and Update has been called
C11_Witness ==
    /\ DOMAIN calls # {}
    /\ \E g, h \in DOMAIN calls :
         /\ calls[g].pc = "done"
         /\ calls[g].res.Domain # <<>>
         /\ calls[h].pc = "cleaned"
         /\ calls[h].input # calls[g].input
         /\ frames[Frame(h)].domain # frames[Frame(g)].domain
    /\ updErr = UpdateError

====
